---- MODULE Spec2Model ----
(***************************************************************************)
(* LearnWise-AI: the resilient generation client (backend/gemini_service)  *)
(* and the relevance extractor (backend/content_extractor).                *)
(*                                                                         *)
(* Time is counted in whole seconds.  The wall clock is assumed to be      *)
(* monotonic; time.sleep(w) returns no earlier than w seconds after it was *)
(* called.  An error text is a sequence of words; the substring tests of   *)
(* the retry code are tests for a word.                                    *)
(***************************************************************************)
EXTENDS Integers, Sequences, FiniteSets, TLC

\* ------------------------------------------------------------------ bounds
Epoch == 100          \* wall-clock reading when the client is constructed
MaxClock == 101       \* idle time may pass (Tick) until this reading
MaxOps == 2           \* public operations started in one behaviour
NCallers == 2         \* threads of the concurrent specification

\* ------------------------------------------------- gemini_service constants
min_request_interval == 6
max_retries_plus_one == 2 + 1
max_retries == 2
fallback_retry_delay == 10
timeout_retry_delay == 5

Max(a, b) == IF a >= b THEN a ELSE b

\* by how much a time.sleep may overshoot, and how long an upstream call may last
Jitters == {0, 1}
CallTimes == {0}

\* ------------------------------------------------------------- error texts
E429 == <<"429", "Resource exhausted">>
EQuotaRetry == <<"Quota", "exceeded", "retry in ", "1", "2", "s">>
ETimedOut == <<"504", "Request", "timed out", "retry in ", "9">>
EBoth == <<"429", "Timeout">>
EAuth == <<"403", "permission denied">>
Errors == {E429, EQuotaRetry, ETimedOut, EBoth, EAuth}

NoError == <<>>
Responses == {"r1", "r2"}
NoneValue == "None"
NoValue == "-"

\* str.lower() on a word of an error text, or on a character of a document
LowerWord(w) ==
  CASE w = "Quota" -> "quota"
    [] w = "Timeout" -> "timeout"
    [] w = "Retry in " -> "retry in "
    [] w = "Request" -> "request"
    [] w = "Resource exhausted" -> "resource exhausted"
    [] w = "A" -> "a"
    [] w = "B" -> "b"
    [] w = "C" -> "c"
    [] OTHER -> w

lower(s) == [i \in 1..Len(s) |-> LowerWord(s[i])]

\* word in error_str
Contains(s, w) == \E i \in 1..Len(s) : s[i] = w

Digits == <<"0", "1", "2", "3", "4", "5", "6", "7", "8", "9">>
IsDigit(w) == \E d \in 1..10 : Digits[d] = w
DigitVal(w) == (CHOOSE d \in 1..10 : Digits[d] = w) - 1

\* the greedy \d+ of the pattern, starting at word i: its value
RECURSIVE ReadInt(_, _, _)
ReadInt(s, i, acc) ==
  IF i <= Len(s) /\ IsDigit(s[i]) THEN ReadInt(s, i + 1, acc * 10 + DigitVal(s[i])) ELSE acc

\* re.search(r'retry in (\d+\.?\d*)', error_str): positions where it matches
RetryInMatches(s) == {i \in 1..Len(s) : s[i] = "retry in " /\ i < Len(s) /\ IsDigit(s[i + 1])}

\* lines 51, 67: the classification of an error text
IsRateLimited(e) == Contains(e, "429") \/ Contains(lower(e), "quota")
IsTimeout(e) ==
  Contains(e, "504") \/ Contains(lower(e), "timeout") \/ Contains(lower(e), "timed out")

\* as RateLimitDelay, without the extra second
RateLimitDelay_exact(e) ==
  IF RetryInMatches(e) # {}
  THEN LET i == CHOOSE j \in RetryInMatches(e) : \A k \in RetryInMatches(e) : j <= k
       IN ReadInt(e, i + 1, 0)
  ELSE fallback_retry_delay

\* lines 54-58: the delay before the retry of a rate-limited call
RateLimitDelay(e) ==
  IF RetryInMatches(e) # {}
  THEN LET i == CHOOSE j \in RetryInMatches(e) : \A k \in RetryInMatches(e) : j <= k
       IN ReadInt(e, i + 1, 0) + 1
  ELSE fallback_retry_delay

\* ------------------------------------------------------------------- state
VARIABLES
  clock,              \* time.time()
  last_request_time,  \* GeminiService.last_request_time
  callers,            \* the threads that use the client
  pc,                 \* each thread's position
  op,                 \* the public operation a thread is in
  attempt,            \* loop variable of _call_with_retry
  current_time,       \* local of _rate_limit
  wake,               \* earliest return of the thread's pending time.sleep
  err,                \* the exception being handled
  resp,               \* what model.generate_content returned
  ret,                \* what _call_with_retry returned
  raised,             \* what _call_with_retry raised
  obs,                \* per thread: what the current invoke has done so far
  gov,                \* what the rate governor has recorded so far
  lastReq,            \* the most recent upstream request
  started             \* public operations started so far

retryVars == <<clock, last_request_time, callers, pc, op, attempt, current_time, wake,
               err, resp, ret, raised, obs, gov, lastReq, started>>

RetryOps == {"generate_learning_chunks", "simplify_content", "chat_response",
             "generate_flashcards", "generate_summary"}
DirectOps == {"generate_quiz"}
PublicOps == RetryOps \cup DirectOps

NoObs == [ncalls |-> 0, nsleeps |-> 0, fails |-> <<>>, failAt |-> 0, gaps |-> <<>>,
          throttled |-> FALSE, slept |-> FALSE, claimed |-> 0, callAt |-> 0, apart |-> <<>>]
NoGov == [nclaims |-> 0, prev_claim |-> 0, first_slept |-> FALSE]
NoReq == [sent |-> FALSE, throttled |-> TRUE]

InitRetry(cs) ==
  /\ clock = Epoch
  /\ last_request_time = 0
  /\ callers = cs
  /\ pc = [t \in cs |-> "idle"]
  /\ op = [t \in cs |-> NoValue]
  /\ attempt = [t \in cs |-> 0]
  /\ current_time = [t \in cs |-> 0]
  /\ wake = [t \in cs |-> 0]
  /\ err = [t \in cs |-> NoError]
  /\ resp = [t \in cs |-> NoValue]
  /\ ret = [t \in cs |-> NoValue]
  /\ raised = [t \in cs |-> NoError]
  /\ obs = [t \in cs |-> NoObs]
  /\ gov = NoGov
  /\ lastReq = NoReq
  /\ started = 0

\* time passes while no statement of the client runs
Tick ==
  /\ clock < MaxClock
  /\ clock' = clock + 1
  /\ UNCHANGED <<last_request_time, callers, pc, op, attempt, current_time, wake, err, resp,
                 ret, raised, obs, gov, lastReq, started>>

\* a public operation is entered; all but generate_quiz go to _call_with_retry
StartOp(t, o) ==
  /\ pc[t] = "idle"
  /\ started < MaxOps
  /\ started' = started + 1
  /\ op' = [op EXCEPT ![t] = o]
  /\ pc' = [pc EXCEPT ![t] = IF o \in RetryOps THEN "loop" ELSE "quiz"]
  /\ attempt' = [attempt EXCEPT ![t] = 0]
  /\ obs' = [obs EXCEPT ![t] = NoObs]
  /\ ret' = [ret EXCEPT ![t] = NoValue]
  /\ raised' = [raised EXCEPT ![t] = NoError]
  /\ resp' = [resp EXCEPT ![t] = NoValue]
  /\ err' = [err EXCEPT ![t] = NoError]
  /\ UNCHANGED <<clock, last_request_time, callers, current_time, wake, gov, lastReq>>

\* line 42: for attempt in range(max_retries + 1)
InRange(a) == a < max_retries + 1

\* lines 42, 82: the loop head; falling out of the loop returns None
LoopHead(t) ==
  /\ pc[t] = "loop"
  /\ IF InRange(attempt[t])
     THEN /\ pc' = [pc EXCEPT ![t] = "rl_time"]
          /\ ret' = ret
     ELSE /\ pc' = [pc EXCEPT ![t] = "done"]
          /\ ret' = [ret EXCEPT ![t] = NoneValue]
  /\ UNCHANGED <<clock, last_request_time, callers, op, attempt, current_time, wake, err, resp,
                 raised, obs, gov, lastReq, started>>

\* line 30: current_time = time.time()
RL_ReadTime(t) ==
  /\ pc[t] = "rl_time"
  /\ current_time' = [current_time EXCEPT ![t] = clock]
  /\ pc' = [pc EXCEPT ![t] = "rl_check"]
  /\ obs' = [obs EXCEPT ![t].slept = FALSE]
  /\ UNCHANGED <<clock, last_request_time, callers, op, attempt, wake, err, resp, ret, raised,
                 gov, lastReq, started>>

\* as WaitTime, waiting for the time that has passed instead of the time that is left
WaitTime_elapsed(now, last) ==
  IF now - last < min_request_interval THEN now - last ELSE 0

\* lines 31-34: wait_time, or 0 when the interval has passed
WaitTime(now, last) ==
  IF now - last < min_request_interval THEN min_request_interval - (now - last) ELSE 0

\* lines 31-36: read last_request_time, decide, and call time.sleep(wait_time)
RL_Check(t) ==
  /\ pc[t] = "rl_check"
  /\ LET w == WaitTime(current_time[t], last_request_time)
     IN IF w > 0
        THEN /\ wake' = [wake EXCEPT ![t] = clock + w]
             /\ obs' = [obs EXCEPT ![t].slept = TRUE]
             /\ pc' = [pc EXCEPT ![t] = "rl_sleep"]
        ELSE /\ pc' = [pc EXCEPT ![t] = "rl_set"]
             /\ UNCHANGED <<wake, obs>>
  /\ UNCHANGED <<clock, last_request_time, callers, op, attempt, current_time, err, resp, ret,
                 raised, gov, lastReq, started>>

\* line 36: time.sleep returns
RL_Sleep(t) ==
  /\ pc[t] = "rl_sleep"
  /\ \E j \in Jitters : clock' = Max(clock, wake[t]) + j
  /\ pc' = [pc EXCEPT ![t] = "rl_set"]
  /\ UNCHANGED <<last_request_time, callers, op, attempt, current_time, wake, err, resp, ret,
                 raised, obs, gov, lastReq, started>>

\* line 38: self.last_request_time = time.time()
RL_Set(t) ==
  /\ pc[t] = "rl_set"
  /\ last_request_time' = clock
  /\ gov' = [nclaims |-> IF gov.nclaims < 2 THEN gov.nclaims + 1 ELSE 2,
             prev_claim |-> last_request_time,
             first_slept |-> IF gov.nclaims = 0 THEN obs[t].slept ELSE gov.first_slept]
  /\ obs' = [obs EXCEPT ![t].throttled = TRUE, ![t].claimed = clock]
  /\ pc' = [pc EXCEPT ![t] = IF op[t] = "throttle" THEN "throttled" ELSE "call"]
  /\ UNCHANGED <<clock, callers, op, attempt, current_time, wake, err, resp, ret, raised,
                 lastReq, started>>

\* line 45: response = self.model.generate_content(prompt); it returns r
UpstreamOk(t, r, d) ==
  /\ pc[t] = "call"
  /\ clock' = clock + d
  /\ lastReq' = [sent |-> TRUE, throttled |-> obs[t].throttled]
  /\ obs' = [obs EXCEPT ![t].ncalls = @ + 1, ![t].throttled = FALSE,
                        ![t].gaps = IF obs[t].fails = <<>> THEN @
                                    ELSE Append(@, clock - obs[t].failAt),
                        ![t].callAt = clock,
                        ![t].apart = IF obs[t].ncalls = 0 THEN @
                                     ELSE Append(@, clock - obs[t].callAt)]
  /\ resp' = [resp EXCEPT ![t] = r]
  /\ pc' = [pc EXCEPT ![t] = "return"]
  /\ UNCHANGED <<last_request_time, callers, op, attempt, current_time, wake, err, ret, raised,
                 gov, started>>

\* line 45: the call raises an exception whose text is e
UpstreamFail(t, e, d) ==
  /\ pc[t] = "call"
  /\ clock' = clock + d
  /\ lastReq' = [sent |-> TRUE, throttled |-> obs[t].throttled]
  /\ obs' = [obs EXCEPT ![t].ncalls = @ + 1, ![t].throttled = FALSE,
                        ![t].gaps = IF obs[t].fails = <<>> THEN @
                                    ELSE Append(@, clock - obs[t].failAt),
                        ![t].fails = Append(@, e),
                        ![t].failAt = clock + d,
                        ![t].callAt = clock,
                        ![t].apart = IF obs[t].ncalls = 0 THEN @
                                     ELSE Append(@, clock - obs[t].callAt)]
  /\ err' = [err EXCEPT ![t] = e]
  /\ pc' = [pc EXCEPT ![t] = "except"]
  /\ UNCHANGED <<last_request_time, callers, op, attempt, current_time, wake, resp, ret, raised,
                 gov, started>>

\* as ReturnResponse, with the loop going on to its next attempt after a success
ReturnResponse_next_attempt(t) ==
  /\ pc[t] = "return"
  /\ attempt' = [attempt EXCEPT ![t] = @ + 1]
  /\ pc' = [pc EXCEPT ![t] = "loop"]
  /\ UNCHANGED <<clock, last_request_time, callers, op, current_time, wake, err, resp, ret,
                 raised, obs, gov, lastReq, started>>

\* line 46: return response
ReturnResponse(t) ==
  /\ pc[t] = "return"
  /\ ret' = [ret EXCEPT ![t] = resp[t]]
  /\ pc' = [pc EXCEPT ![t] = "done"]
  /\ UNCHANGED <<clock, last_request_time, callers, op, attempt, current_time, wake, err, resp,
                 raised, obs, gov, lastReq, started>>

\* as MayRetry, with <= for <
MayRetry_inclusive(a) == a <= max_retries

\* lines 52, 68: if attempt < max_retries
MayRetry(a) == a < max_retries

\* as Decide, with the exhausted timeout re-raised like the exhausted rate limit
Decide_timeout_raises(e, a) ==
  IF IsRateLimited(e)
  THEN IF MayRetry(a) THEN [do |-> "sleep", delay |-> RateLimitDelay(e)]
                      ELSE [do |-> "raise", delay |-> 0]
  ELSE IF IsTimeout(e)
       THEN IF MayRetry(a) THEN [do |-> "sleep", delay |-> timeout_retry_delay]
                           ELSE [do |-> "raise", delay |-> 0]
       ELSE [do |-> "raise", delay |-> 0]

\* as Decide, with every failure retried while attempts remain
Decide_retry_all(e, a) ==
  IF IsRateLimited(e)
  THEN IF MayRetry(a) THEN [do |-> "sleep", delay |-> RateLimitDelay(e)]
                      ELSE [do |-> "raise", delay |-> 0]
  ELSE IF MayRetry(a) THEN [do |-> "sleep", delay |-> timeout_retry_delay]
       ELSE IF IsTimeout(e) THEN [do |-> "none", delay |-> 0]
            ELSE [do |-> "raise", delay |-> 0]

\* as Decide, with the timeout indicators tested before the rate-limit indicators
Decide_timeout_first(e, a) ==
  IF IsTimeout(e)
  THEN IF MayRetry(a) THEN [do |-> "sleep", delay |-> timeout_retry_delay]
                      ELSE [do |-> "none", delay |-> 0]
  ELSE IF IsRateLimited(e)
       THEN IF MayRetry(a) THEN [do |-> "sleep", delay |-> RateLimitDelay(e)]
                           ELSE [do |-> "raise", delay |-> 0]
       ELSE [do |-> "raise", delay |-> 0]

\* lines 47-80: what the except clause decides for error text e on attempt a
Decide(e, a) ==
  IF IsRateLimited(e)
  THEN IF MayRetry(a) THEN [do |-> "sleep", delay |-> RateLimitDelay(e)]
                      ELSE [do |-> "raise", delay |-> 0]
  ELSE IF IsTimeout(e)
       THEN IF MayRetry(a) THEN [do |-> "sleep", delay |-> timeout_retry_delay]
                           ELSE [do |-> "none", delay |-> 0]
       ELSE [do |-> "raise", delay |-> 0]

\* as Handle, with the decision taken by the first failure of the invoke
Handle_decides_by_first(t) ==
  /\ pc[t] = "except"
  /\ LET d == Decide(obs[t].fails[1], attempt[t])
     IN CASE d.do = "sleep" ->
               /\ wake' = [wake EXCEPT ![t] = clock + d.delay]
               /\ pc' = [pc EXCEPT ![t] = "backoff"]
               /\ UNCHANGED <<ret, raised>>
          [] d.do = "raise" ->
               /\ raised' = [raised EXCEPT ![t] = err[t]]
               /\ pc' = [pc EXCEPT ![t] = "done"]
               /\ UNCHANGED <<wake, ret>>
          [] d.do = "none" ->
               /\ ret' = [ret EXCEPT ![t] = NoneValue]
               /\ pc' = [pc EXCEPT ![t] = "done"]
               /\ UNCHANGED <<wake, raised>>
  /\ UNCHANGED <<clock, last_request_time, callers, op, attempt, current_time, err, resp, obs,
                 gov, lastReq, started>>

\* as Handle, with the exhausted timeout neither returned nor raised
Handle_exhausted_timeout_stays(t) ==
  /\ pc[t] = "except"
  /\ LET d == Decide(err[t], attempt[t])
     IN CASE d.do = "sleep" ->
               /\ wake' = [wake EXCEPT ![t] = clock + d.delay]
               /\ pc' = [pc EXCEPT ![t] = "backoff"]
               /\ UNCHANGED <<ret, raised>>
          [] d.do = "raise" ->
               /\ raised' = [raised EXCEPT ![t] = err[t]]
               /\ pc' = [pc EXCEPT ![t] = "done"]
               /\ UNCHANGED <<wake, ret>>
          [] d.do = "none" ->
               UNCHANGED <<pc, wake, ret, raised>>
  /\ UNCHANGED <<clock, last_request_time, callers, op, attempt, current_time, err, resp, obs,
                 gov, lastReq, started>>

\* lines 47-80: the except clause, up to the call of time.sleep(retry_delay)
Handle(t) ==
  /\ pc[t] = "except"
  /\ LET d == Decide(err[t], attempt[t])
     IN CASE d.do = "sleep" ->
               /\ wake' = [wake EXCEPT ![t] = clock + d.delay]
               /\ pc' = [pc EXCEPT ![t] = "backoff"]
               /\ UNCHANGED <<ret, raised>>
          [] d.do = "raise" ->
               /\ raised' = [raised EXCEPT ![t] = err[t]]
               /\ pc' = [pc EXCEPT ![t] = "done"]
               /\ UNCHANGED <<wake, ret>>
          [] d.do = "none" ->
               /\ ret' = [ret EXCEPT ![t] = NoneValue]
               /\ pc' = [pc EXCEPT ![t] = "done"]
               /\ UNCHANGED <<wake, raised>>
  /\ UNCHANGED <<clock, last_request_time, callers, op, attempt, current_time, err, resp, obs,
                 gov, lastReq, started>>

\* as Backoff, with the retry going to the upstream call without _rate_limit
Backoff_unthrottled_retry(t) ==
  /\ pc[t] = "backoff"
  /\ \E j \in Jitters : clock' = Max(clock, wake[t]) + j
  /\ attempt' = [attempt EXCEPT ![t] = @ + 1]
  /\ obs' = [obs EXCEPT ![t].nsleeps = @ + 1]
  /\ pc' = [pc EXCEPT ![t] = "call"]
  /\ UNCHANGED <<last_request_time, callers, op, current_time, wake, err, resp, ret, raised,
                 gov, lastReq, started>>

\* lines 61, 72: time.sleep(retry_delay) returns; the loop goes to its next attempt
Backoff(t) ==
  /\ pc[t] = "backoff"
  /\ \E j \in Jitters : clock' = Max(clock, wake[t]) + j
  /\ attempt' = [attempt EXCEPT ![t] = @ + 1]
  /\ obs' = [obs EXCEPT ![t].nsleeps = @ + 1]
  /\ pc' = [pc EXCEPT ![t] = "loop"]
  /\ UNCHANGED <<last_request_time, callers, op, current_time, wake, err, resp, ret, raised,
                 gov, lastReq, started>>

\* generate_quiz, line 448: self.model.generate_content(prompt), called directly;
\* whatever it returns or raises, generate_quiz returns a quiz (lines 449-474)
QuizCall(t, d) ==
  /\ pc[t] = "quiz"
  /\ clock' = clock + d
  /\ lastReq' = [sent |-> TRUE, throttled |-> obs[t].throttled]
  /\ pc' = [pc EXCEPT ![t] = "idle"]
  /\ UNCHANGED <<last_request_time, callers, op, attempt, current_time, wake, err, resp, ret,
                 raised, obs, gov, started>>

\* _call_with_retry has returned or raised; the public operation returns to its caller
Finish(t) ==
  /\ pc[t] = IF op[t] = "generate_learning_chunks" THEN "served" ELSE "done"
  /\ pc' = [pc EXCEPT ![t] = "idle"]
  /\ op' = [op EXCEPT ![t] = NoValue]
  /\ attempt' = [attempt EXCEPT ![t] = 0]
  /\ current_time' = [current_time EXCEPT ![t] = 0]
  /\ wake' = [wake EXCEPT ![t] = 0]
  /\ err' = [err EXCEPT ![t] = NoError]
  /\ resp' = [resp EXCEPT ![t] = NoValue]
  /\ ret' = [ret EXCEPT ![t] = NoValue]
  /\ raised' = [raised EXCEPT ![t] = NoError]
  /\ obs' = [obs EXCEPT ![t] = NoObs]
  /\ UNCHANGED <<clock, last_request_time, callers, gov, lastReq, started>>

\* a thread calls _rate_limit() by itself
StartThrottle(t) ==
  /\ pc[t] = "idle"
  /\ started < MaxOps
  /\ started' = started + 1
  /\ op' = [op EXCEPT ![t] = "throttle"]
  /\ obs' = [obs EXCEPT ![t] = NoObs]
  /\ pc' = [pc EXCEPT ![t] = "rl_time"]
  /\ UNCHANGED <<clock, last_request_time, callers, attempt, current_time, wake, err, resp, ret,
                 raised, gov, lastReq>>

\* the thread goes on after _rate_limit() returned
EndThrottle(t) ==
  /\ pc[t] = "throttled"
  /\ pc' = [pc EXCEPT ![t] = "idle"]
  /\ UNCHANGED <<clock, last_request_time, callers, op, attempt, current_time, wake, err, resp,
                 ret, raised, obs, gov, lastReq, started>>

\* ------------------------------------------------------ content_extractor
\* A text is a sequence of characters.  The characters of the model:
NL == "\n"
Whitespace == {" ", NL}
UpperCase == {"A", "B", "C"}
LowerCase == {"a", "b", "c", "o", "f", "z"}
DigitChars == {"1"}
WordChars == UpperCase \cup LowerCase \cup DigitChars
\* the backquote character (U+0060), which a string of this module cannot hold
Backtick == "bq"
Punctuation == {"#", ".", "[", "]", "{", "}", ",", ":", "\"", "'", "\\", "-", Backtick}
Chars == WordChars \cup Whitespace \cup Punctuation

Min(a, b) == IF a <= b THEN a ELSE b

\* n copies of the character c
Rep(c, n) == [i \in 1..n |-> c]

\* s[:n] for n >= 0
Prefix(s, n) == SubSeq(s, 1, Min(n, Len(s)))

\* str.strip()
strip(s) ==
  IF \A i \in 1..Len(s) : s[i] \in Whitespace
  THEN <<>>
  ELSE LET first == CHOOSE i \in 1..Len(s) :
                      s[i] \notin Whitespace /\ \A j \in 1..(i - 1) : s[j] \in Whitespace
           last == CHOOSE i \in 1..Len(s) :
                     s[i] \notin Whitespace /\ \A j \in (i + 1)..Len(s) : s[j] \in Whitespace
       IN SubSeq(s, first, last)

\* the positions at which w occurs in s
Occurrences(s, w) ==
  {i \in 1..(Len(s) - Len(w) + 1) : \A j \in 1..Len(w) : s[i + j - 1] = w[j]}

\* the occurrences a left-to-right scan takes when it skips k characters after each
RECURSIVE Scan(_, _, _)
Scan(M, from, k) ==
  LET C == {i \in M : i >= from}
  IN IF C = {} THEN <<>>
     ELSE LET m == CHOOSE i \in C : \A j \in C : i <= j
          IN <<m>> \o Scan(M, m + k, k)

\* str.count(w)
count(s, w) ==
  IF Len(w) = 0 THEN Len(s) + 1 ELSE Len(Scan(Occurrences(s, w), 1, Len(w)))

\* w in s
InText(w, s) == Len(w) = 0 \/ Occurrences(s, w) # {}

\* str.split(sep) for a non-empty separator
split(s, sep) ==
  LET at == Scan(Occurrences(s, sep), 1, Len(sep))
      n == Len(at)
      from(j) == IF j = 1 THEN 1 ELSE at[j - 1] + Len(sep)
      to(j) == IF j = n + 1 THEN Len(s) ELSE at[j] - 1
  IN [j \in 1..(n + 1) |-> SubSeq(s, from(j), to(j))]

\* line 66
stop_words ==
  {<<"i", "n">>, <<"t", "h", "e">>, <<"a">>,
   <<"a", "n">>, <<"a", "n", "d">>, <<"o", "r">>,
   <<"o", "f">>, <<"t", "o">>, <<"f", "o", "r">>,
   <<"w", "i", "t", "h">>, <<"o", "n">>, <<"a", "t">>}

\* line 69: re.findall(r'\w+', text): the maximal runs of word characters
findall_words(s) ==
  LET starts == {i \in 1..Len(s) : s[i] \in WordChars /\ (i = 1 \/ s[i - 1] \notin WordChars)}
      end(i) == CHOOSE e \in i..Len(s) :
                  /\ \A j \in i..e : s[j] \in WordChars
                  /\ (e = Len(s) \/ s[e + 1] \notin WordChars)
      at == Scan(starts, 1, 1)
  IN [j \in 1..Len(at) |-> SubSeq(s, at[j], end(at[j]))]

\* as _extract_keywords, with the full topic added only when it is not empty
_extract_keywords_nonempty_topic(topic) ==
  LET words == findall_words(lower(topic))
      keep(w) == w \notin stop_words /\ Len(w) > 2
  IN IF topic = <<>> THEN SelectSeq(words, keep)
     ELSE Append(SelectSeq(words, keep), lower(topic))

\* lines 63-75
_extract_keywords(topic) ==
  LET words == findall_words(lower(topic))
      keep(w) == w \notin stop_words /\ Len(w) > 2
  IN Append(SelectSeq(words, keep), lower(topic))

\* the length of the longest run of characters of S that starts at s[i]
RunFrom(s, i, S) ==
  IF \A j \in i..Len(s) : s[j] \in S
  THEN Max(Len(s) - i + 1, 0)
  ELSE (CHOOSE e \in i..Len(s) : s[e] \notin S /\ \A j \in i..(e - 1) : s[j] \in S) - i

\* line 84: re.match(r'\n#{1,6}\s+.+\n', '\n' + line + '\n')
IsMarkdownHeader(line) ==
  LET h == RunFrom(line, 1, {"#"})
  IN h >= 1 /\ h <= 6 /\ Len(line) >= h + 2 /\ line[h + 1] \in Whitespace

\* line 85: re.match(r'\n\d+\.\s+[A-Z].+\n', '\n' + line + '\n')
IsNumberedHeader(line) ==
  LET d == RunFrom(line, 1, {Digits[n] : n \in 1..10})
      w == RunFrom(line, d + 2, Whitespace)
  IN /\ d >= 1
     /\ Len(line) >= d + 1 /\ line[d + 1] = "."
     /\ w >= 1
     /\ Len(line) >= d + w + 3
     /\ line[d + w + 2] \in UpperCase

\* line 86: re.match(r'\n[A-Z][A-Z\s]+\n', '\n' + line + '\n')
IsCapsHeader(line) ==
  /\ Len(line) >= 2
  /\ line[1] \in UpperCase
  /\ \A i \in 2..Len(line) : line[i] \in UpperCase \cup Whitespace

\* lines 95-99
is_header(line) == IsMarkdownHeader(line) \/ IsNumberedHeader(line) \/ IsCapsHeader(line)

\* as SectionLoop, with a new section at every header line, also while the
\* accumulated section is blank
RECURSIVE SectionLoop_every_header(_, _, _, _)
SectionLoop_every_header(lines, i, sections, current_section) ==
  IF i > Len(lines)
  THEN [sections |-> sections, current_section |-> current_section]
  ELSE IF is_header(lines[i])
       THEN SectionLoop_every_header(lines, i + 1, Append(sections, strip(current_section)),
                                     lines[i] \o <<NL>>)
       ELSE SectionLoop_every_header(lines, i + 1, sections,
                                     current_section \o lines[i] \o <<NL>>)

\* lines 93-106: the loop over the lines, from line i on
RECURSIVE SectionLoop(_, _, _, _)
SectionLoop(lines, i, sections, current_section) ==
  IF i > Len(lines)
  THEN [sections |-> sections, current_section |-> current_section]
  ELSE IF is_header(lines[i]) /\ strip(current_section) # <<>>
       THEN SectionLoop(lines, i + 1, Append(sections, strip(current_section)),
                        lines[i] \o <<NL>>)
       ELSE SectionLoop(lines, i + 1, sections, current_section \o lines[i] \o <<NL>>)

\* line 114: the paragraphs of the content, stripped, the blank ones dropped
Paragraphs(content) ==
  LET ps == split(content, <<NL, NL>>)
      stripped == [j \in 1..Len(ps) |-> strip(ps[j])]
      nonblank(p) == p # <<>>
  IN SelectSeq(stripped, nonblank)

\* lines 90-110: the sections the header pass finds
HeaderSections(content) ==
  LET r == SectionLoop(split(content, <<NL>>), 1, <<>>, <<>>)
  IN IF strip(r.current_section) # <<>>
     THEN Append(r.sections, strip(r.current_section))
     ELSE r.sections

\* lines 77-116
_split_into_sections(content) ==
  LET sections == HeaderSections(content)
  IN IF Len(sections) <= 1 THEN Paragraphs(content) ELSE sections

\* lines 123-130: the sum over the keywords of count * len(keyword), that is 5 times
\* the sum of count * weight
\* as OccurrenceScore, with the presence of a keyword counted instead of its occurrences
RECURSIVE OccurrenceScore_presence(_, _, _)
OccurrenceScore_presence(section_lower, keywords, i) ==
  IF i > Len(keywords) THEN 0
  ELSE Min(count(section_lower, keywords[i]), 1) * Len(keywords[i])
       + OccurrenceScore_presence(section_lower, keywords, i + 1)

RECURSIVE OccurrenceScore(_, _, _)
OccurrenceScore(section_lower, keywords, i) ==
  IF i > Len(keywords) THEN 0
  ELSE count(section_lower, keywords[i]) * Len(keywords[i])
       + OccurrenceScore(section_lower, keywords, i + 1)

\* lines 118-138: the relevance score, in fifths (the score times 5)
_calculate_relevance_score(section, keywords) ==
  LET section_lower == lower(section)
      first_line == lower(split(section, <<NL>>)[1])
      bonus == Cardinality({i \in 1..Len(keywords) : InText(keywords[i], first_line)})
  IN OccurrenceScore(section_lower, keywords, 1) + 5 * 10 * bonus

\* as ScoredSections, with score >= 0 for score > 0
ScoredSections_keep_all(sections, keywords) ==
  [j \in 1..Len(sections) |->
     [score |-> _calculate_relevance_score(sections[j], keywords),
      section |-> sections[j]]]

\* lines 33-37: the sections that score above 0, with their scores
ScoredSections(sections, keywords) ==
  LET all == [j \in 1..Len(sections) |->
                [score |-> _calculate_relevance_score(sections[j], keywords),
                 section |-> sections[j]]]
      positive(x) == x.score > 0
  IN SelectSeq(all, positive)

\* as SortByScore, with equal scores in reverse document order
SortByScore_reversed_ties(xs) ==
  LET rank(i) == Cardinality({j \in 1..Len(xs) :
                    xs[j].score > xs[i].score \/ (xs[j].score = xs[i].score /\ j > i)}) + 1
  IN [r \in 1..Len(xs) |-> xs[CHOOSE i \in 1..Len(xs) : rank(i) = r]]

\* line 40: list.sort(reverse=True, key=score): stable, highest score first
SortByScore(xs) ==
  LET rank(i) == Cardinality({j \in 1..Len(xs) :
                    xs[j].score > xs[i].score \/ (xs[j].score = xs[i].score /\ j < i)}) + 1
  IN [r \in 1..Len(xs) |-> xs[CHOOSE i \in 1..Len(xs) : rank(i) = r]]

\* line 49: len(extracted_content) < max_chars * 0.8
BelowFill(n, max_chars) == 5 * n < 4 * max_chars

Ellipsis == <<".", ".", ".">>

\* lines 45-55: the selection loop, from scored section i on
RECURSIVE SelectLoop(_, _, _, _)
SelectLoop(scored, i, extracted_content, max_chars) ==
  IF i > Len(scored) THEN extracted_content
  ELSE LET section == scored[i].section
       IN IF Len(extracted_content) + Len(section) <= max_chars
          THEN SelectLoop(scored, i + 1, extracted_content \o section \o <<NL, NL>>, max_chars)
          ELSE IF BelowFill(Len(extracted_content), max_chars)
               THEN extracted_content
                      \o Prefix(section, max_chars - Len(extracted_content))
                      \o Ellipsis \o <<NL, NL>>
               ELSE extracted_content

\* line 58
min_extracted_chars == 1000

\* lines 26-55: the text assembled from the scored sections
Assembled(full_content, topic, max_chars) ==
  SelectLoop(SortByScore(ScoredSections(_split_into_sections(full_content),
                                        _extract_keywords(topic))),
             1, <<>>, max_chars)

\* lines 13-61
extract_topic_content(full_content, topic, max_chars) ==
  LET extracted_content == Assembled(full_content, topic, max_chars)
  IN IF Len(extracted_content) < min_extracted_chars
     THEN strip(Prefix(full_content, max_chars))
     ELSE strip(extracted_content)

\* ------------------------------------------------------------ json.loads
\* The values json.loads builds, and its failure (json.JSONDecodeError).  A number
\* is kept as its digits; the literals true, false and null are single characters
\* of the model; exponents are not modelled.
JStr(cs) == [t |-> "str", s |-> cs]
JNum(cs) == [t |-> "num", n |-> cs]
JLit(c) == [t |-> "lit", l |-> c]
JArr(xs) == [t |-> "arr", items |-> xs]
JObj(f) == [t |-> "obj", fields |-> f]
JNone == [t |-> "None"]

Fail == [ok |-> FALSE]
Ok(v, i) == [ok |-> TRUE, val |-> v, pos |-> i]

JsonWhitespace == {" ", NL}
Literals == {"true", "false", "null"}
Escapable == {"\"", "\\", "/", "b", "f", "n", "r", "t"}
\* what an escape stands for; backspace, form feed, carriage return and tab are
\* written as the atoms "\\b", "\\f", "\\r", "\\t"
Unescape(c) ==
  CASE c = "n" -> NL
    [] c = "b" -> "\\b"
    [] c = "f" -> "\\f"
    [] c = "r" -> "\\r"
    [] c = "t" -> "\\t"
    [] OTHER -> c
JsonDigits == {Digits[d] : d \in 1..10}

SkipWs(s, i) == i + RunFrom(s, i, JsonWhitespace)

At(s, i, c) == i <= Len(s) /\ s[i] = c

\* the body of a string from s[j] on, up to its closing quote (strict mode: no
\* control character, no unknown escape; the four-digit form of an escape is not
\* among the texts of the model)
RECURSIVE ScanString(_, _, _)
ScanString(s, j, acc) ==
  IF j > Len(s) THEN Fail
  ELSE IF s[j] = "\"" THEN Ok(JStr(acc), j + 1)
  ELSE IF s[j] = "\\"
       THEN IF j + 1 <= Len(s) /\ s[j + 1] \in Escapable
            THEN ScanString(s, j + 2, Append(acc, Unescape(s[j + 1])))
            ELSE Fail
  ELSE IF s[j] = NL THEN Fail
  ELSE ScanString(s, j + 1, Append(acc, s[j]))

\* -?(0|[1-9]\d*)(\.\d+)? at s[i]
ScanNumber(s, i) ==
  LET j == IF At(s, i, "-") THEN i + 1 ELSE i
      int == IF At(s, j, "0") THEN 1 ELSE RunFrom(s, j, JsonDigits)
      k == j + int
      frac == IF At(s, k, ".") THEN RunFrom(s, k + 1, JsonDigits) ELSE 0
      e == IF frac > 0 THEN k + 1 + frac ELSE k
  IN IF int = 0 THEN Fail ELSE Ok(JNum(SubSeq(s, i, e - 1)), e)

\* dict(pairs): the last value given for a key stays
ObjectOf(pairs) ==
  LET keys == {pairs[i][1] : i \in 1..Len(pairs)}
      lastOf(k) == CHOOSE i \in 1..Len(pairs) :
                     pairs[i][1] = k /\ \A j \in (i + 1)..Len(pairs) : pairs[j][1] # k
  IN JObj([k \in keys |-> pairs[lastOf(k)][2]])

RECURSIVE ScanValue(_, _), ScanItems(_, _, _), ScanMembers(_, _, _)

\* one value at s[i]
ScanValue(s, i) ==
  IF i > Len(s) THEN Fail
  ELSE IF s[i] = "\"" THEN ScanString(s, i + 1, <<>>)
  ELSE IF s[i] = "[" THEN
         LET j == SkipWs(s, i + 1)
         IN IF At(s, j, "]") THEN Ok(JArr(<<>>), j + 1) ELSE ScanItems(s, j, <<>>)
  ELSE IF s[i] = "{" THEN
         LET j == SkipWs(s, i + 1)
         IN IF At(s, j, "}") THEN Ok(ObjectOf(<<>>), j + 1) ELSE ScanMembers(s, j, <<>>)
  ELSE IF s[i] \in Literals THEN Ok(JLit(s[i]), i + 1)
  ELSE ScanNumber(s, i)

\* the items of an array from s[j] on: value (',' value)* ']'
ScanItems(s, j, acc) ==
  LET v == ScanValue(s, j)
  IN IF ~v.ok THEN Fail
     ELSE LET k == SkipWs(s, v.pos)
          IN IF At(s, k, "]") THEN Ok(JArr(Append(acc, v.val)), k + 1)
             ELSE IF At(s, k, ",") THEN ScanItems(s, SkipWs(s, k + 1), Append(acc, v.val))
             ELSE Fail

\* the members of an object from s[j] on: string ':' value (',' string ':' value)* '}'
ScanMembers(s, j, acc) ==
  IF ~At(s, j, "\"") THEN Fail
  ELSE LET key == ScanString(s, j + 1, <<>>)
       IN IF ~key.ok THEN Fail
          ELSE LET c == SkipWs(s, key.pos)
               IN IF ~At(s, c, ":") THEN Fail
                  ELSE LET v == ScanValue(s, SkipWs(s, c + 1))
                       IN IF ~v.ok THEN Fail
                          ELSE LET k == SkipWs(s, v.pos)
                                   pairs == Append(acc, <<key.val.s, v.val>>)
                               IN IF At(s, k, "}") THEN Ok(ObjectOf(pairs), k + 1)
                                  ELSE IF At(s, k, ",")
                                       THEN ScanMembers(s, SkipWs(s, k + 1), pairs)
                                       ELSE Fail

\* json.loads(s): [ok |-> TRUE, val |-> v], or [ok |-> FALSE] for JSONDecodeError
json_loads(s) ==
  LET v == ScanValue(s, SkipWs(s, 1))
  IN IF ~v.ok THEN Fail
     ELSE IF SkipWs(s, v.pos) <= Len(s) THEN Fail
     ELSE [ok |-> TRUE, val |-> v.val]

\* ------------------------------------------- generate_learning_chunks
\* what a block of code ends with: a returned value or a raised exception
\* tried lists the json.loads calls made on the way, in order
Return(v) == [kind |-> "return", value |-> v, exc |-> NoValue, tried |-> <<>>]
Raise(e) == [kind |-> "raise", value |-> JNone, exc |-> e, tried |-> <<>>]
After(tier, r) == [r EXCEPT !.tried = <<tier>> \o @]

EmptyList == JArr(<<>>)

startswith(s, p) == Len(p) <= Len(s) /\ SubSeq(s, 1, Len(p)) = p
endswith(s, p) == Len(p) <= Len(s) /\ SubSeq(s, Len(s) - Len(p) + 1, Len(s)) = p

\* str.find(w) and str.rfind(w): the index counted from 0, or -1
find(s, w) ==
  IF Occurrences(s, w) = {} THEN -1
  ELSE (CHOOSE i \in Occurrences(s, w) : \A j \in Occurrences(s, w) : i <= j) - 1
rfind(s, w) ==
  IF Occurrences(s, w) = {} THEN -1
  ELSE (CHOOSE i \in Occurrences(s, w) : \A j \in Occurrences(s, w) : i >= j) - 1

\* s[a:] and s[:b] for a, b >= 0
From(s, a) == SubSeq(s, a + 1, Len(s))
UpTo(s, b) == Prefix(s, b)

\* str.replace(c, w) for a single character c
RECURSIVE replace(_, _, _)
replace(s, c, w) ==
  IF s = <<>> THEN <<>>
  ELSE (IF Head(s) = c THEN w ELSE <<Head(s)>>) \o replace(Tail(s), c, w)

Fence == <<Backtick, Backtick, Backtick>>
Markers == <<Fence \o <<"json">>, Fence, Fence \o <<"JSON">>>>

\* lines 164-167: one round of the marker loop
StripMarker(text, marker) ==
  LET t == IF startswith(text, marker) THEN strip(From(text, Len(marker))) ELSE text
  IN IF endswith(t, Fence) THEN strip(UpTo(t, Len(t) - 3)) ELSE t

\* lines 163-179: the markers and the text around the brackets removed
Unwrap(text0) ==
  LET text1 == StripMarker(StripMarker(StripMarker(text0, Markers[1]), Markers[2]), Markers[3])
      bracket_start == find(text1, <<"[">>)
      text2 == IF bracket_start > 0 THEN From(text1, bracket_start) ELSE text1
      bracket_end == rfind(text2, <<"]">>)
      text3 == IF bracket_end > 0 /\ bracket_end < Len(text2) - 1
               THEN UpTo(text2, bracket_end + 1) ELSE text2
  IN strip(text3)

\* lines 195, 213, 246, 261: len(chunks) raises TypeError on a number or a literal
Sized(v) == v.t \in {"arr", "obj", "str"}

\* lines 209-218: the quote repair; its bare except returns []
QuoteRepair(json_text) ==
  LET fixed_json == replace(json_text, "'", <<"\\", "'">>)
      r == json_loads(fixed_json)
  IN After("repair", IF r.ok /\ Sized(r.val) THEN Return(r.val) ELSE Return(EmptyList))

\* lines 189-218: both brackets found
DirectTier(json_text) ==
  LET r == json_loads(json_text)
  IN After("direct", IF r.ok
                     THEN IF Sized(r.val) THEN Return(r.val) ELSE Raise("TypeError")
                     ELSE QuoteRepair(json_text))

\* re.sub(c + r'\s*"[^"]*$', '', s): the text is cut at a c that is followed, after
\* whitespace, by the last quote of the text
CutDangling(s, c) ==
  IF Occurrences(s, <<"\"">>) = {} THEN s
  ELSE LET q == rfind(s, <<"\"">>) + 1
           before == {i \in 1..(q - 1) : s[i] \notin Whitespace}
           p == IF before = {} THEN 0 ELSE CHOOSE i \in before : \A j \in before : i >= j
       IN IF p >= 1 /\ s[p] = c THEN SubSeq(s, 1, p - 1) ELSE s

\* lines 252-265: the aggressive cleanup; its bare except returns []
AggressiveCleanup(json_text) ==
  LET t1 == CutDangling(json_text, ",")
      t2 == CutDangling(t1, ":")
      t3 == IF ~endswith(t2, <<"]">>) THEN Append(t2, "]") ELSE t2
      r == json_loads(t3)
  IN After("cleanup", IF r.ok /\ Sized(r.val) THEN Return(r.val) ELSE Return(EmptyList))

\* lines 237-239: no complete object in the truncated response
NoCompleteObject == Return(EmptyList)

\* as SalvageTier, with the open string and the open record closed instead of cut off
SalvageTier_closes_fragment(text) ==
  LET json_text == text \o <<"\"", "}", "]">>
      r == json_loads(json_text)
  IN After("salvage", IF r.ok
                      THEN IF Sized(r.val) THEN Return(r.val) ELSE Raise("TypeError")
                      ELSE AggressiveCleanup(json_text))

\* lines 225-265: an opening bracket and no closing one
SalvageTier(text) ==
  LET last_complete_with_comma == rfind(text, <<"}", ",">>)
      last_complete_without_comma == rfind(text, <<"}">>)
      cut == IF last_complete_with_comma > 0 THEN last_complete_with_comma + 1
             ELSE IF last_complete_without_comma > 0 THEN last_complete_without_comma + 1
             ELSE 0
      json_text == Append(UpTo(text, cut), "]")
      r == json_loads(json_text)
  IN IF cut = 0 THEN NoCompleteObject
     ELSE After("salvage", IF r.ok
                           THEN IF Sized(r.val) THEN Return(r.val) ELSE Raise("TypeError")
                           ELSE AggressiveCleanup(json_text))

\* as NoArrayFound, with the return statement forgotten
NoArrayFound_falls_through == Return(JNone)

\* lines 266-269: no JSON array in the response
NoArrayFound == Return(EmptyList)

\* as ParseResponse, with the first closing bracket taken for the end of the array
ParseResponse_first_bracket(response_text) ==
  LET text == Unwrap(strip(response_text))
      start == find(text, <<"[">>)
      end == find(text, <<"]">>)
  IN IF start >= 0 /\ end > start THEN DirectTier(SubSeq(text, start + 1, end + 1))
     ELSE IF start >= 0 /\ end = -1 THEN SalvageTier(From(text, start))
     ELSE NoArrayFound

\* lines 157-269: the body of the try block, from the text of the response on
ParseResponse(response_text) ==
  LET text == Unwrap(strip(response_text))
      start == find(text, <<"[">>)
      end == rfind(text, <<"]">>)
  IN IF start >= 0 /\ end > start THEN DirectTier(SubSeq(text, start + 1, end + 1))
     ELSE IF start >= 0 /\ end = -1 THEN SalvageTier(From(text, start))
     ELSE NoArrayFound

\* lines 271-279: except json.JSONDecodeError and except Exception both return []
Guarded(r) == IF r.kind = "raise" THEN [Return(EmptyList) EXCEPT !.tried = r.tried] ELSE r

\* lines 148-279, for a response whose text is response_text
recover(response_text) == Guarded(ParseResponse(response_text))

\* ------------------------------------------------- the extractor's inputs
BodyLen == 400        \* characters of filler in a section body
LongLen == 600        \* characters of filler in a long section body
MaxBlocks == 2        \* every document of at most this many blocks is tried

Filler(n) == Rep("z", n)

\* a markdown header that holds the keyword, and a body that does not
BlockMarkdown == <<"#", " ", "a", "b", "c", NL>> \o Filler(BodyLen) \o <<NL>>
\* an all-caps header, and a body that holds the keyword twice
BlockCaps == <<"A", "B", NL, "a", "b", "c", " ", "a", "b", "c", " ">> \o Filler(BodyLen) \o <<NL>>
\* a numbered header that holds the keyword, and a long body that holds it once
BlockLong == <<"1", ".", " ", "A", "b", "c", NL, "A", "b", "c", " ">> \o Filler(LongLen) \o <<NL>>
\* an all-caps header and a body without the keyword
BlockOther == <<"C", "C", NL>> \o Filler(BodyLen) \o <<NL>>
\* a paragraph that holds the keyword, closed by a blank line
BlockParagraph == <<"a", "b", "c", " ">> \o Filler(BodyLen) \o <<NL, NL>>
\* blank lines
BlockBlank == <<" ", NL, NL>>

Blocks == {BlockMarkdown, BlockCaps, BlockLong, BlockOther, BlockParagraph, BlockBlank}

RECURSIVE Join(_)
Join(bs) == IF bs = <<>> THEN <<>> ELSE Head(bs) \o Join(Tail(bs))

\* longer documents: a zero-score section between scoring ones, a zero-score section
\* whose text is also part of a scoring one, three scoring sections in both orders,
\* a truncated section after a zero-score one and after blank lines
LongerDocuments ==
  { <<BlockLong, BlockOther, BlockCaps>>,
    <<BlockParagraph, BlockOther, BlockParagraph, BlockOther>>,
    <<BlockMarkdown, BlockCaps, BlockLong>>,
    <<BlockLong, BlockCaps, BlockMarkdown>>,
    <<BlockOther, BlockLong, BlockLong>>,
    <<BlockBlank, BlockLong, BlockLong>> }

Documents ==
  {Join(bs) : bs \in UNION {[1..n -> Blocks] : n \in 0..MaxBlocks} \cup LongerDocuments}

\* a word, the empty topic, a phrase with stop-words, and a stop-word
Topics == {<<"a", "b", "c">>, <<>>, <<"A", " ", "o", "f", " ", "c", "a", "b">>, <<"A">>}

default_max_chars == 15000
Budgets == {5, 1100, 1500, default_max_chars}

VARIABLES
  full_content,  \* the document handed to extract_topic_content
  topic,         \* its topic
  max_chars,     \* its budget
  topic_keywords,\* its local topic_keywords (line 27)
  extracted,     \* what extract_topic_content returned
  xpc            \* "ready" before the call, "done" after it

extractVars == <<full_content, topic, max_chars, topic_keywords, extracted, xpc>>

ExtractIdle ==
  /\ full_content = <<>>
  /\ topic = <<>>
  /\ max_chars = 0
  /\ topic_keywords = <<>>
  /\ extracted = <<>>
  /\ xpc = "off"

\* lines 13-61: one call of extract_topic_content
Extract ==
  /\ xpc = "ready"
  /\ topic_keywords' = _extract_keywords(topic)
  /\ extracted' = extract_topic_content(full_content, topic, max_chars)
  /\ xpc' = "done"
  /\ UNCHANGED <<full_content, topic, max_chars>>

\* ------------------------------------------------- the segmenter's inputs
MaxLines == 4         \* every document of at most this many lines is segmented

\* blank lines, a text line, the three kinds of header, and two lines that are
\* nearly headers
SplitLines ==
  { <<>>, <<" ">>, <<"a">>, <<"#", " ", "a">>, <<"#", "a">>, <<"A", "B">>, <<"A">>,
    <<"1", ".", " ", "A", "b">> }

RECURSIVE JoinLines(_)
JoinLines(ls) ==
  IF Len(ls) = 0 THEN <<>>
  ELSE IF Len(ls) = 1 THEN ls[1]
  ELSE ls[1] \o <<NL>> \o JoinLines(Tail(ls))

SplitDocuments == {JoinLines(ls) : ls \in UNION {[1..n -> SplitLines] : n \in 0..MaxLines}}

VARIABLES
  content,    \* the document handed to _split_into_sections
  sections,   \* the list it returned
  kpc         \* "ready" before the call, "done" after it

splitVars == <<content, sections, kpc>>

SplitIdle ==
  /\ content = <<>>
  /\ sections = <<>>
  /\ kpc = "off"

\* lines 77-116: one call of _split_into_sections
Split ==
  /\ kpc = "ready"
  /\ sections' = _split_into_sections(content)
  /\ kpc' = "done"
  /\ UNCHANGED content

\* ---------------------------------------------------- the scorer's inputs
MaxSectionLen == 3    \* every section of at most this many characters is scored

ScoreAlphabet == {"a", "b", NL}
ScoreSections == UNION {[1..n -> ScoreAlphabet] : n \in 0..MaxSectionLen}
\* the empty keyword is what _extract_keywords makes of an empty topic
ScoreKeywords == {<<>>, <<"a">>, <<"a", "b">>}
KeywordLists == UNION {[1..n -> ScoreKeywords] : n \in 1..2}

VARIABLES
  section_a,   \* a section handed to _calculate_relevance_score
  keywords_a,  \* and its keyword list
  section_b,   \* a second section
  keywords_b,  \* and its keyword list
  score_a,     \* the score of the first call, in fifths
  score_b,     \* the score of the second call, in fifths
  spc          \* "ready" before the two calls, "done" after them

scoreVars == <<section_a, keywords_a, section_b, keywords_b, score_a, score_b, spc>>

ScoreIdle ==
  /\ section_a = <<>>
  /\ section_b = <<>>
  /\ keywords_a = <<>>
  /\ keywords_b = <<>>
  /\ score_a = 0
  /\ score_b = 0
  /\ spc = "off"

\* lines 118-138: _calculate_relevance_score called on each of the two inputs
Score ==
  /\ spc = "ready"
  /\ score_a' = _calculate_relevance_score(section_a, keywords_a)
  /\ score_b' = _calculate_relevance_score(section_b, keywords_b)
  /\ spc' = "done"
  /\ UNCHANGED <<section_a, keywords_a, section_b, keywords_b>>

\* ---------------------------------------------------- the parser's inputs
MaxRawLen == 4        \* every text of at most this many characters is tried

RawAlphabet == {"[", "]", "{", "}", ",", ":", "\"", "'", "a", "1", " "}
ShortTexts == UNION {[1..n -> RawAlphabet] : n \in 0..MaxRawLen}

\* a flat record {"id":<id>,"title":"<title>"}; id and title are single characters
Rec(id, title) ==
  <<"{", "\"", "id", "\"", ":", id, ",", "\"", "title", "\"", ":", "\"", title, "\"", "}">>

ArrayAB == <<"[">> \o Rec("1", "A") \o <<",">> \o Rec("2", "B") \o <<"]">>
\* a title that holds a closing bracket, and one that holds an apostrophe
ArrayTricky == <<"[">> \o Rec("1", "]") \o <<",", " ">> \o Rec("2", "'") \o <<"]">>

\* strings with a known escape, an unknown escape and a bare line break
EscapeTexts ==
  { <<"[", "\"", "\\", "n", "\"", "]">>,
    <<"[", "\"", "\\", "a", "\"", "]">>,
    <<"[", "\"", NL, "\"", "]">>,
    <<"[", "1", "2", ".", "1", "]">>,
    <<"[", "0", "1", "]">>,
    <<"[", "true", ",", NL, "null", "]">> }

Prefixes(s) == {SubSeq(s, 1, n) : n \in 0..Len(s)}

\* a flat record whose title is a text: {"id":<id>,"title":"<title>"}
Record(id, title) ==
  <<"{", "\"", "id", "\"", ":", id, ",", "\"", "title", "\"", ":", "\"">> \o title \o <<"\"", "}">>

MaxRecords == 2       \* the longest array of records tried, apart from ArrayFive

\* id and title of the records tried: plain titles, a title that holds a record
\* terminator and a separator, a title that holds a closing bracket
RecordSpecs ==
  { <<"1", <<"A">>>>, <<"2", <<"B">>>>, <<"3", <<"}", ",">>>>, <<"4", <<"]">>>> }
RecordLists == UNION {[1..n -> RecordSpecs] : n \in 0..MaxRecords}

\* "[" and the records of recs with a separator between them
RECURSIVE OpenArray(_)
OpenArray(recs) ==
  IF recs = <<>> THEN <<"[">>
  ELSE LET front == SubSeq(recs, 1, Len(recs) - 1)
           r == recs[Len(recs)]
       IN OpenArray(front) \o (IF front = <<>> THEN <<>> ELSE <<",">>) \o Record(r[1], r[2])
ArrayOf(recs) == Append(OpenArray(recs), "]")

FiveRecords ==
  << <<"1", <<"A">>>>, <<"2", <<"B">>>>, <<"3", <<"C">>>>, <<"4", <<"a">>>>, <<"5", <<"b">>>> >>
ArrayFive == ArrayOf(FiveRecords)

\* every well-formed array of the records above, and every prefix of one
ArrayTexts == {ArrayOf(recs) : recs \in RecordLists} \cup {ArrayFive}
PrefixTexts == UNION {Prefixes(t) : t \in ArrayTexts}
Fenced(s) == Fence \o <<"json", NL>> \o s \o <<NL>> \o Fence
Prosed(s) == <<"a", " ">> \o s \o <<" ", "a">>

RawTexts ==
  ShortTexts \cup EscapeTexts \cup Prefixes(ArrayAB) \cup Prefixes(ArrayTricky)
    \cup {Fenced(t) : t \in Prefixes(ArrayAB)} \cup {Prosed(t) : t \in Prefixes(ArrayAB)}
    \cup PrefixTexts

VARIABLES
  raw,     \* the text of the upstream response
  chunks,  \* how generate_learning_chunks ended on it
  rpc,     \* "ready" before the call, "done" after it
  served   \* the chunks continue_learning hands to the user

recoverVars == <<raw, chunks, rpc, served>>

RecoverIdle ==
  /\ raw = <<>>
  /\ chunks = Return(JNone)
  /\ rpc = "off"
  /\ served = JNone

\* lines 148-279: generate_learning_chunks on a response whose text is raw
Recover ==
  /\ rpc = "ready"
  /\ chunks' = recover(raw)
  /\ rpc' = "done"
  /\ UNCHANGED <<raw, served>>

\* ------------------------------------------------------ continue_learning
\* the texts an upstream response may carry: a well-formed array, two truncated
\* ones, an array of numbers, prose, nothing
ResponseTexts ==
  { ArrayAB, SubSeq(ArrayAB, 1, Len(ArrayAB) - 1), SubSeq(ArrayAB, 1, Len(ArrayAB) - 6),
    <<"[", "1", "]">>, <<"a">>, <<>> }

\* app_minimal.py, lines 433-475: generate_fallback_chunks returns two records
FallbackRecord(id) ==
  JObj((<<"id">> :> JNum(<<id>>)) @@ (<<"title">> :> JStr(<<"title">>))
       @@ (<<"content">> :> JStr(<<"content">>))
       @@ (<<"estimated_time">> :> JStr(<<"min">>)))
FallbackChunks == JArr(<<FallbackRecord("1"), FallbackRecord("2")>>)

\* as WithFallback, with "chunks is None" for "not chunks"
WithFallback_none_only(v) == IF v = JNone THEN FallbackChunks ELSE v

\* app_minimal.py, lines 411-414: if not chunks or len(chunks) == 0
WithFallback(v) ==
  IF v = JNone \/ (v.t = "arr" /\ v.items = <<>>) THEN FallbackChunks ELSE v

\* gemini_service.py, lines 148-279: generate_learning_chunks after _call_with_retry
\* has returned or raised; text is the text of the response, read at line 157
ParseChunks(t, text) ==
  /\ pc[t] = "done"
  /\ op[t] = "generate_learning_chunks"
  /\ IF raised[t] # NoError
     THEN text = <<>> /\ chunks' = Guarded(Raise("Exception")) /\ UNCHANGED raw
     ELSE IF ret[t] = NoneValue
          THEN text = <<>> /\ chunks' = Return(EmptyList) /\ UNCHANGED raw
          ELSE raw' = text /\ chunks' = recover(text)
  /\ pc' = [pc EXCEPT ![t] = "chunks"]
  /\ UNCHANGED <<clock, last_request_time, callers, op, attempt, current_time, wake, err, resp,
                 ret, raised, obs, gov, lastReq, started, rpc, served>>

\* app_minimal.py, lines 400-414: continue_learning takes the chunks, or [] when the
\* call raised, and replaces an empty list by the fallback chunks
ContinueLearning(t) ==
  /\ pc[t] = "chunks"
  /\ served' = WithFallback(IF chunks.kind = "raise" THEN EmptyList ELSE chunks.value)
  /\ pc' = [pc EXCEPT ![t] = "served"]
  /\ UNCHANGED <<clock, last_request_time, callers, op, attempt, current_time, wake, err, resp,
                 ret, raised, obs, gov, lastReq, started, raw, chunks, rpc>>

\* the public operation returns to its caller and the request ends
EndRequest(t) ==
  /\ Finish(t)
  /\ raw' = <<>>
  /\ chunks' = Return(JNone)
  /\ served' = JNone
  /\ UNCHANGED rpc

\* --------------------------------------------------------- specifications
vars == <<retryVars, extractVars, recoverVars, scoreVars, splitVars>>

\* one caller: public operations one after another on one client
Init == InitRetry({1}) /\ ExtractIdle /\ RecoverIdle /\ ScoreIdle /\ SplitIdle

Next ==
  /\ \/ Tick /\ UNCHANGED recoverVars
     \/ \E t \in callers, o \in PublicOps : StartOp(t, o) /\ UNCHANGED recoverVars
     \/ \E t \in callers : LoopHead(t) /\ UNCHANGED recoverVars
     \/ \E t \in callers : RL_ReadTime(t) /\ UNCHANGED recoverVars
     \/ \E t \in callers : RL_Check(t) /\ UNCHANGED recoverVars
     \/ \E t \in callers : RL_Sleep(t) /\ UNCHANGED recoverVars
     \/ \E t \in callers : RL_Set(t) /\ UNCHANGED recoverVars
     \/ \E t \in callers, r \in Responses, d \in CallTimes : UpstreamOk(t, r, d) /\ UNCHANGED recoverVars
     \/ \E t \in callers, e \in Errors, d \in CallTimes : UpstreamFail(t, e, d) /\ UNCHANGED recoverVars
     \/ \E t \in callers : ReturnResponse(t) /\ UNCHANGED recoverVars
     \/ \E t \in callers : Handle(t) /\ UNCHANGED recoverVars
     \/ \E t \in callers : Backoff(t) /\ UNCHANGED recoverVars
     \/ \E t \in callers, d \in CallTimes : QuizCall(t, d) /\ UNCHANGED recoverVars
     \/ \E t \in callers, text \in ResponseTexts : ParseChunks(t, text)
     \/ \E t \in callers : ContinueLearning(t)
     \/ \E t \in callers : EndRequest(t)
  /\ UNCHANGED <<extractVars, scoreVars, splitVars>>

Spec == Init /\ [][Next]_vars

\* the statements of _call_with_retry and _rate_limit, the upstream call and the
\* sleeps: a thread inside _call_with_retry goes on, every upstream call returns or
\* raises, and every time.sleep returns
InvokeStep ==
  \E t \in callers :
    \/ LoopHead(t) \/ RL_ReadTime(t) \/ RL_Check(t) \/ RL_Sleep(t) \/ RL_Set(t)
    \/ \E r \in Responses, d \in CallTimes : UpstreamOk(t, r, d)
    \/ \E e \in Errors, d \in CallTimes : UpstreamFail(t, e, d)
    \/ ReturnResponse(t) \/ Handle(t) \/ Backoff(t)

SpecLive == Init /\ [][Next]_vars /\ WF_vars(InvokeStep /\ UNCHANGED <<extractVars, recoverVars, scoreVars, splitVars>>)

\* several threads call _rate_limit() on the same client
InitConc == InitRetry(1..NCallers) /\ ExtractIdle /\ RecoverIdle /\ ScoreIdle /\ SplitIdle

NextConc ==
  /\ \/ Tick
     \/ \E t \in callers : StartThrottle(t)
     \/ \E t \in callers : RL_ReadTime(t)
     \/ \E t \in callers : RL_Check(t)
     \/ \E t \in callers : RL_Sleep(t)
     \/ \E t \in callers : RL_Set(t)
     \/ \E t \in callers : EndThrottle(t)
  /\ UNCHANGED <<extractVars, recoverVars, scoreVars, splitVars>>

SpecConc == InitConc /\ [][NextConc]_vars

\* extract_topic_content on every document, topic and budget of the model
InitExtract ==
  /\ InitRetry({})
  /\ full_content \in Documents
  /\ topic \in Topics
  /\ max_chars \in Budgets
  /\ topic_keywords = <<>>
  /\ extracted = <<>>
  /\ xpc = "ready"
  /\ RecoverIdle
  /\ ScoreIdle /\ SplitIdle

NextExtract == Extract /\ UNCHANGED <<retryVars, recoverVars, scoreVars, splitVars>>

SpecExtract == InitExtract /\ [][NextExtract]_vars

\* generate_learning_chunks on every response text of the model
InitRecover ==
  /\ InitRetry({})
  /\ ExtractIdle
  /\ raw \in RawTexts
  /\ chunks = Return(JNone)
  /\ rpc = "ready"
  /\ served = JNone
  /\ ScoreIdle /\ SplitIdle

NextRecover == Recover /\ UNCHANGED <<retryVars, extractVars, scoreVars, splitVars>>

SpecRecover == InitRecover /\ [][NextRecover]_vars

\* _calculate_relevance_score on two sections with one keyword list, and on one
\* section with two keyword lists of the same length
InitScore ==
  /\ InitRetry({})
  /\ SplitIdle
  /\ ExtractIdle
  /\ RecoverIdle
  /\ section_a \in ScoreSections
  /\ section_b \in ScoreSections
  /\ keywords_a \in KeywordLists
  /\ keywords_b \in KeywordLists
  /\ \/ keywords_a = keywords_b
     \/ section_a = section_b /\ Len(keywords_a) = Len(keywords_b)
  /\ score_a = 0
  /\ score_b = 0
  /\ spc = "ready"

NextScore == Score /\ UNCHANGED <<retryVars, extractVars, recoverVars, splitVars>>

SpecScore == InitScore /\ [][NextScore]_vars

\* _split_into_sections on every document of at most MaxLines lines
InitSplit ==
  /\ InitRetry({})
  /\ ExtractIdle
  /\ RecoverIdle
  /\ ScoreIdle
  /\ content \in SplitDocuments
  /\ sections = <<>>
  /\ kpc = "ready"

NextSplit == Split /\ UNCHANGED <<retryVars, extractVars, recoverVars, scoreVars>>

SpecSplit == InitSplit /\ [][NextSplit]_vars

\* ------------------------------------------------------------------ claims
Last(s) == s[Len(s)]

\* the class of an error text, by the order in which the except clause tests it
RateClass(e) == IsRateLimited(e)
TimeoutClass(e) == IsTimeout(e) /\ ~IsRateLimited(e)
OtherClass(e) == ~IsTimeout(e) /\ ~IsRateLimited(e)

\* C2: one caller: two consecutive recorded request times are at least
\* min_request_interval apart, and the first _rate_limit call does not sleep
C2_RateSpacing ==
  /\ gov.nclaims >= 2 => last_request_time - gov.prev_claim >= min_request_interval
  /\ gov.nclaims >= 1 => ~gov.first_slept

\* a second claim made exactly one interval after the first, after a sleep in _rate_limit
C2_Witness ==
  /\ gov.nclaims = 2
  /\ last_request_time - gov.prev_claim = min_request_interval
  /\ \E t \in callers : pc[t] = "call" /\ obs[t].slept

\* C3: concurrent callers: no two callers have both returned from _rate_limit with
\* claimed request times less than min_request_interval apart
C3_AtomicClaims ==
  \A t, u \in callers :
    (t # u /\ pc[t] = "throttled" /\ pc[u] = "throttled")
      => \/ obs[t].claimed - obs[u].claimed >= min_request_interval
         \/ obs[u].claimed - obs[t].claimed >= min_request_interval

\* C4: every upstream request of a public operation is sent after a _rate_limit call
\* made for that request
C4_AllRequestsThrottled == lastReq.sent => lastReq.throttled

\* C5: one _call_with_retry makes at most 3 upstream calls
C5_RetryBound == \A t \in callers : obs[t].ncalls <= 3

\* a third upstream call has been made
C5_Witness == \E t \in callers : obs[t].ncalls = 3 /\ pc[t] \in {"return", "except"}

\* C6: timeout-class failures on all 3 attempts: None is returned, nothing is raised,
\* exactly 3 upstream calls were made
C6_TimeoutSentinel ==
  \A t \in callers :
    (/\ pc[t] = "done"
     /\ Len(obs[t].fails) = 3
     /\ \A i \in 1..3 : TimeoutClass(obs[t].fails[i]))
      => ret[t] = NoneValue /\ raised[t] = NoError /\ obs[t].ncalls = 3

\* three timeouts and the sentinel returned
C6_Witness ==
  \E t \in callers :
    /\ pc[t] = "done"
    /\ obs[t].fails = <<ETimedOut, ETimedOut, ETimedOut>>
    /\ ret[t] = NoneValue

\* _call_with_retry has returned or raised: the thread is at its return, or further on
\* in generate_learning_chunks and continue_learning
Returned(t) == pc[t] \in {"done", "chunks", "served"}

\* C7: a rate-limited failure on attempt 3 is raised to the caller: no sentinel and no
\* third sleep
C7_RateLimitPropagates ==
  \A t \in callers :
    (Len(obs[t].fails) = 3 /\ RateClass(obs[t].fails[3]))
      => /\ pc[t] = "except" \/ Returned(t)
         /\ obs[t].nsleeps = 2
         /\ Returned(t) => raised[t] = obs[t].fails[3] /\ ret[t] = NoValue

\* the third attempt was rate-limited and _call_with_retry has raised
C7_Witness ==
  \E t \in callers :
    /\ pc[t] = "done"
    /\ Len(obs[t].fails) = 3
    /\ obs[t].fails[3] = E429
    /\ raised[t] = E429

\* C8: a failure that is neither rate-limited nor timeout is raised at once, on any
\* attempt: no sleep after it and no further upstream call
C8_OtherPropagates ==
  \A t \in callers :
    (obs[t].fails # <<>> /\ OtherClass(Last(obs[t].fails)))
      => /\ pc[t] = "except" \/ Returned(t)
         /\ obs[t].ncalls = Len(obs[t].fails)
         /\ obs[t].nsleeps = Len(obs[t].fails) - 1
         /\ Returned(t) => raised[t] = Last(obs[t].fails) /\ ret[t] = NoValue

\* an error of the other class on the second attempt, raised
C8_Witness ==
  \E t \in callers :
    /\ pc[t] = "done"
    /\ obs[t].fails = <<ETimedOut, EAuth>>
    /\ raised[t] = EAuth

\* the wait the back-off schedule promises after each error text
PromisedWait(e) ==
  CASE e = EQuotaRetry -> 12 + 1
    [] e = E429 -> 10
    [] e = EBoth -> 10
    [] e = ETimedOut -> 5
    [] OTHER -> 0

\* C9: between a retried failure and the next upstream call at least the promised
\* time passes; a success after retries is returned as the response
C9_Backoff ==
  \A t \in callers :
    /\ \A i \in 1..Len(obs[t].gaps) : obs[t].gaps[i] >= PromisedWait(obs[t].fails[i])
    /\ (pc[t] = "done" /\ obs[t].ncalls > Len(obs[t].fails))
         => ret[t] = resp[t] /\ ret[t] \in Responses /\ raised[t] = NoError

\* a rate-limited failure with "retry in 12", 13 s of wait, then a success returned
C9_Witness ==
  \E t \in callers :
    /\ pc[t] = "done"
    /\ obs[t].fails = <<EQuotaRetry>>
    /\ obs[t].gaps = <<13>>
    /\ ret[t] \in Responses

\* C1: the text extract_topic_content returns is never longer than the budget
C1_BudgetInvariant == xpc = "done" => Len(extracted) <= max_chars

\* C10: on every response text generate_learning_chunks returns a list, possibly
\* empty, and raises nothing
C10_RecoveryTotal ==
  rpc = "done" => chunks.kind = "return" /\ chunks.value.t = "arr"

\* the texts the claim names: the empty text, a lone "[", unbalanced and balanced
\* brackets, each answered with a list
C10_Witness ==
  /\ rpc = "done"
  /\ raw \in {<<>>, <<"[">>, <<"]", "[">>, <<"[", "[", "]">>, <<"[", "1", "]">>}
  /\ chunks.kind = "return"
  /\ chunks.value.t = "arr"

\* what json.loads makes of Record(id, title)
RecordValue(id, title) ==
  JObj((<<"id">> :> JNum(<<id>>)) @@ (<<"title">> :> JStr(title)))
ValuesOf(recs) == JArr([i \in 1..Len(recs) |-> RecordValue(recs[i][1], recs[i][2])])
AllRecordLists == RecordLists \cup {FiveRecords}
First(recs, k) == SubSeq(recs, 1, k)
NoClosingBracket(text) == \A i \in 1..Len(text) : text[i] # "]"

\* text is "[", the first k records of recs, each followed by a separator, and a
\* non-empty incomplete fragment of record k + 1
MidRecordCut(text, recs, k) ==
  /\ k >= 1 /\ k < Len(recs)
  /\ Len(text) >= Len(OpenArray(First(recs, k))) + 2
  /\ Len(text) < Len(OpenArray(First(recs, k + 1)))
  /\ text = SubSeq(ArrayOf(recs), 1, Len(text))
  /\ NoClosingBracket(text)

\* C11: from "[", k >= 1 complete records each followed by a separator and an
\* incomplete fragment of a further record, recover() returns exactly the k records
C11_MidRecordSalvage ==
  rpc = "done" =>
    \A recs \in AllRecordLists : \A k \in 1..Len(recs) :
      MidRecordCut(raw, recs, k) => chunks.value = ValuesOf(First(recs, k))

\* C12: a well-formed array of records is returned record for record, by the
\* direct parse alone
C12_DirectParseFidelity ==
  rpc = "done" =>
    \A recs \in AllRecordLists :
      (raw # <<>> /\ raw[Len(raw)] = "]" /\ raw = ArrayOf(recs)) =>
        /\ chunks.kind = "return"
        /\ chunks.value = ValuesOf(recs)
        /\ chunks.tried = <<"direct">>

\* the array of five records, parsed
C12_Witness ==
  /\ rpc = "done"
  /\ raw = ArrayFive
  /\ Len(chunks.value.items) = 5
  /\ chunks.tried = <<"direct">>

\* C13: for a non-empty document and a positive budget the extracted text is not empty
C13_NonEmpty ==
  (xpc = "done" /\ Len(full_content) > 0 /\ max_chars > 0) => Len(extracted) > 0

\* the sections of the document and their scores, as extract_topic_content sees them
SectionsOf(doc) == _split_into_sections(doc)
ScoreOf(section) == _calculate_relevance_score(section, _extract_keywords(topic))
ZeroOf(secs) == {i \in 1..Len(secs) : ScoreOf(secs[i]) = 0}
FittingOf(secs) == {i \in 1..Len(secs) : ScoreOf(secs[i]) > 0 /\ Len(secs[i]) <= max_chars}
ZeroSections == ZeroOf(SectionsOf(full_content))
FittingSections == FittingOf(SectionsOf(full_content))
NoZeroSectionReturned ==
  LET secs == SectionsOf(full_content)
  IN \A i \in ZeroOf(secs) : ~InText(secs[i], extracted)
ScoringPath == Len(Assembled(full_content, topic, max_chars)) >= min_extracted_chars

RECURSIVE BuiltFrom(_, _, _)
BuiltFrom(text, secs, avail) ==
  \/ text = <<>>
  \/ \E i \in avail :
       \/ text = secs[i]
       \/ /\ Len(text) >= 3
          /\ Len(text) - 3 <= Len(secs[i])
          /\ text = Prefix(secs[i], Len(text) - 3) \o Ellipsis
       \/ /\ startswith(text, secs[i] \o <<NL, NL>>)
          /\ BuiltFrom(From(text, Len(secs[i]) + 2), secs, avail \ {i})

ScoringSectionsOnly ==
  LET secs == SectionsOf(full_content)
  IN BuiltFrom(extracted, secs, {i \in 1..Len(secs) : ScoreOf(secs[i]) > 0})

\* the fallback of lines 58-59 was not taken: what was returned is the assembled text
ScoringPathTaken ==
  /\ Len(extracted) >= min_extracted_chars - 2
  /\ ScoringPath

C16_InputErrors ==
  (xpc = "done" /\ (full_content = <<>> \/ topic = <<>>))
    => (extracted = <<>> \/ extracted = Prefix(full_content, max_chars))

FirstLine(section) == lower(split(section, <<NL>>)[1])
Count(section, keyword) == count(lower(section), keyword)

\* keyword i occurs twice as often in section_b as in section_a, at least once there,
\* and nothing else differs: same first line, same counts of the other keywords
Doubled(i) ==
  /\ keywords_a = keywords_b
  /\ FirstLine(section_a) = FirstLine(section_b)
  /\ Count(section_a, keywords_a[i]) >= 1
  /\ Count(section_b, keywords_a[i]) = 2 * Count(section_a, keywords_a[i])
  /\ \A j \in 1..Len(keywords_a) :
       keywords_a[j] # keywords_a[i]
         => Count(section_b, keywords_a[j]) = Count(section_a, keywords_a[j])

\* from section_a to section_b no keyword's count shrinks and the first line stays
CountsGrow ==
  /\ keywords_a = keywords_b
  /\ FirstLine(section_a) = FirstLine(section_b)
  /\ \A j \in 1..Len(keywords_a) :
       Count(section_b, keywords_a[j]) >= Count(section_a, keywords_a[j])

\* from keywords_a to keywords_b no keyword gets shorter, and each keeps its count
\* and its place in or out of the first line
LengthsGrow ==
  /\ section_a = section_b
  /\ Len(keywords_a) = Len(keywords_b)
  /\ \A j \in 1..Len(keywords_a) :
       /\ Len(keywords_b[j]) >= Len(keywords_a[j])
       /\ Count(section_a, keywords_b[j]) = Count(section_a, keywords_a[j])
       /\ InText(keywords_b[j], FirstLine(section_a)) = InText(keywords_a[j], FirstLine(section_a))

NeverDecreases ==
  /\ CountsGrow => score_b >= score_a
  /\ LengthsGrow => score_b >= score_a

RequiredFields == {<<"id">>, <<"title">>, <<"content">>, <<"estimated_time">>}
IsChunkRecord(v) == v.t = "obj" /\ RequiredFields \subseteq DOMAIN v.fields

\* C17: every element of the list generate_learning_chunks returns is a record with
\* an identifier, a title, a body and a duration estimate
C17_RecordsOnly ==
  (rpc = "done" /\ chunks.kind = "return" /\ chunks.value.t = "arr")
    => \A i \in 1..Len(chunks.value.items) : IsChunkRecord(chunks.value.items[i])

\* C19: when the direct parse and the quote repair have both failed, the truncation
\* salvage is tried before the empty list is returned
C19_TierFallThrough ==
  (/\ rpc = "done"
   /\ Len(chunks.tried) >= 2
   /\ chunks.tried[1] = "direct"
   /\ chunks.tried[2] = "repair"
   /\ chunks.value = EmptyList)
    => \E i \in 1..Len(chunks.tried) : chunks.tried[i] = "salvage"

\* the records of recs that are complete in the first n characters of ArrayOf(recs)
CompleteIn(recs, n) ==
  CHOOSE k \in 0..Len(recs) :
    /\ Len(OpenArray(First(recs, k))) <= n
    /\ \A j \in (k + 1)..Len(recs) : Len(OpenArray(First(recs, j))) > n

\* C20: from a prefix of a well-formed array of records that has no closing bracket,
\* recover() returns every record that is complete in the prefix, the last one
\* included when no separator follows it
C20_SalvageAllComplete ==
  rpc = "done" =>
    \A recs \in AllRecordLists :
      (/\ Len(raw) >= 1
       /\ Len(raw) < Len(ArrayOf(recs))
       /\ raw = SubSeq(ArrayOf(recs), 1, Len(raw))
       /\ NoClosingBracket(raw))
        => chunks.value = ValuesOf(First(recs, CompleteIn(recs, Len(raw))))

\* C18: whatever _call_with_retry did, generate_learning_chunks returns a list and
\* raises nothing, and the chunks continue_learning hands on are a non-empty list
C18_CallerFallback ==
  \A t \in callers :
    /\ pc[t] \in {"chunks", "served"} =>
         /\ chunks.kind = "return"
         /\ chunks.value.t = "arr"
    /\ pc[t] = "served" =>
         /\ served.t = "arr"
         /\ Len(served.items) > 0
         /\ chunks.value.items = <<>> => served = FallbackChunks
         /\ chunks.value.items # <<>> => served = chunks.value

\* the rate limit has exhausted the attempts, the error was raised inside
\* generate_learning_chunks, and the user gets the fallback chunks
C18_Witness ==
  \E t \in callers :
    /\ pc[t] = "served"
    /\ RateClass(raised[t])
    /\ chunks.value = EmptyList
    /\ served = FallbackChunks

\* ---- C21
LinesOf(doc) == split(doc, <<NL>>)
Blank(s) == \A i \in 1..Len(s) : s[i] \in Whitespace

\* the header lines met while the accumulated section is non-blank
Cuts(doc) ==
  LET lines == LinesOf(doc)
  IN {i \in 1..Len(lines) : is_header(lines[i]) /\ \E j \in 1..(i - 1) : ~Blank(lines[j])}

\* doc, from position from on, is whitespace, then secs[k], then whitespace, then
\* secs[k + 1], and so on up to its end
RECURSIVE Covers(_, _, _, _)
Covers(doc, from, secs, k) ==
  LET p == from + RunFrom(doc, from, Whitespace)
  IN IF k > Len(secs) THEN p > Len(doc)
     ELSE /\ p + Len(secs[k]) - 1 <= Len(doc)
          /\ SubSeq(doc, p, p + Len(secs[k]) - 1) = secs[k]
          /\ Covers(doc, p + Len(secs[k]), secs, k + 1)

\* the lines first..last of the document, each closed by a line break
RECURSIVE LinesText(_, _, _)
LinesText(lines, first, last) ==
  IF first > last THEN <<>> ELSE lines[first] \o <<NL>> \o LinesText(lines, first + 1, last)

\* the sections that begin at line 1 and at each line of cuts
CutAt(doc, cuts) ==
  LET lines == LinesOf(doc)
      at == <<1>> \o Scan(cuts, 1, 1)
      last(k) == IF k = Len(at) THEN Len(lines) ELSE at[k + 1] - 1
  IN [k \in 1..Len(at) |-> strip(LinesText(lines, at[k], last(k)))]

\* C21: the sections are non-empty and, with whitespace between them, make up the
\* document in order; when a header line is met while the accumulated section is
\* non-blank, a section starts at each such line and nowhere else; when there is no
\* such line, the sections are the paragraphs between blank lines
C21_SegmenterPartition ==
  kpc = "done" =>
    /\ \A k \in 1..Len(sections) : sections[k] # <<>>
    /\ Covers(content, 1, sections, 1)
    /\ Cuts(content) # {} => sections = CutAt(content, Cuts(content))
    /\ Cuts(content) = {} => sections = Paragraphs(content)

\* three sections cut at two header lines, after a first header line that was met
\* while nothing was accumulated
C21_Witness ==
  /\ kpc = "done"
  /\ Len(sections) = 3
  /\ is_header(LinesOf(content)[1])
  /\ Cardinality(Cuts(content)) = 2

\* ---- C22
\* the sections that score above 0, in document order
ScoringSections ==
  LET positive(sec) == ScoreOf(sec) > 0
  IN SelectSeq(SectionsOf(full_content), positive)

\* o lists the sections secs by non-increasing score, equal scores in document order
ByScore(o, secs) ==
  /\ \A a, b \in 1..Len(secs) : a # b => o[a] # o[b]
  /\ \A a, b \in 1..Len(secs) :
       a < b => \/ ScoreOf(secs[o[a]]) > ScoreOf(secs[o[b]])
                \/ ScoreOf(secs[o[a]]) = ScoreOf(secs[o[b]]) /\ o[a] < o[b]

\* the first n sections of secs in the order o, each followed by a blank line
RECURSIVE Whole(_, _, _)
Whole(secs, o, n) ==
  IF n = 0 THEN <<>> ELSE Whole(secs, o, n - 1) \o secs[o[n]] \o <<NL, NL>>

\* the text is n whole sections in the order o, each of which fitted the budget when
\* it was met, and then: nothing, when no section is left or 0.8 of the budget is
\* reached; else the first section that does not fit, cut to the rest of the budget
\* and closed by the ellipsis
ShapedBy(text, secs, o, n) ==
  LET m == Len(secs)
      acc(k) == Len(Whole(secs, o, k))
      tail == IF n < m /\ BelowFill(acc(n), max_chars)
              THEN Prefix(secs[o[n + 1]], max_chars - acc(n)) \o Ellipsis
              ELSE <<>>
  IN /\ \A k \in 1..n : acc(k - 1) + Len(secs[o[k]]) <= max_chars
     /\ n < m => acc(n) + Len(secs[o[n + 1]]) > max_chars
     /\ text = strip(Whole(secs, o, n) \o tail)

SelectionShape ==
  LET secs == ScoringSections
      m == Len(secs)
  IN \E o \in [1..m -> 1..m] :
       /\ ByScore(o, secs)
       /\ \E n \in 0..m : ShapedBy(extracted, secs, o, n)

\* C22: when the assembled text has at least 1000 characters, the returned text is
\* whole sections by non-increasing score, equal scores in document order, up to the
\* first section that does not fit; that section is added, cut and closed by the
\* ellipsis, only if less than 0.8 of the budget is filled, and nothing follows it
C22_SelectionShape == (xpc = "done" /\ ScoringPath) => SelectionShape

\* two whole sections of equal score and different text, and a third one cut
C22_Witness ==
  /\ xpc = "done"
  /\ ScoringPath
  /\ LET secs == ScoringSections
     IN /\ Len(secs) = 3
        /\ \E a, b \in 1..3 : a # b /\ ScoreOf(secs[a]) = ScoreOf(secs[b]) /\ secs[a] # secs[b]
        /\ endswith(extracted, Ellipsis)
        /\ startswith(extracted, secs[1] \o <<NL, NL>> \o secs[2] \o <<NL, NL>>)

\* ---- C23
\* C23: when no section scores above 0 or the assembled text is shorter than 1000
\* characters, the returned text is the first max_chars characters of the document,
\* character for character; otherwise it is the assembled text
C23_VerbatimFallback ==
  xpc = "done" =>
    /\ ~ScoringPath => extracted = Prefix(full_content, max_chars)
    /\ ScoringPath => extracted = strip(Assembled(full_content, topic, max_chars))

\* ---- C24
\* C24: once an upstream call of an invoke has succeeded, the invoke is at its return
\* statement or has returned: the successful call is its last call, every wait came
\* before it, and what it returns is the response of that call
C24_SuccessTerminal ==
  \A t \in callers :
    resp[t] \in Responses =>
      /\ pc[t] = "return" \/ Returned(t)
      /\ obs[t].ncalls = Len(obs[t].fails) + 1
      /\ obs[t].nsleeps = Len(obs[t].fails)
      /\ Returned(t) => ret[t] = resp[t] /\ raised[t] = NoError

\* a success on the last attempt, after a timeout and a rate-limit error
C24_Witness ==
  \E t \in callers :
    /\ Returned(t)
    /\ obs[t].fails = <<ETimedOut, E429>>
    /\ ret[t] = "r2"
    /\ resp[t] = "r2"

\* ---- C25
\* the positions inside _call_with_retry
InvokePositions ==
  {"loop", "rl_time", "rl_check", "rl_sleep", "rl_set", "call", "return", "except", "backoff"}

\* _call_with_retry has ended with exactly one of: a response, None, an exception
OneOutcome(t) ==
  \/ ret[t] \in Responses /\ raised[t] = NoError
  \/ ret[t] = NoneValue /\ raised[t] = NoError
  \/ ret[t] = NoValue /\ raised[t] # NoError

Terminal(t) ==
  /\ pc[t] = "done"
  /\ OneOutcome(t)
  /\ obs[t].ncalls <= max_retries + 1

\* C25: when every upstream call and every sleep returns, a caller inside
\* _call_with_retry always gets to its end, with exactly one of a response, None or
\* an exception, after at most max_retries + 1 upstream calls
C25_Termination == (pc[1] \in InvokePositions) ~> Terminal(1)

\* the invoke ended with an exception on its second attempt, after one retry
C25_Witness ==
  /\ Terminal(1)
  /\ raised[1] = EAuth
  /\ obs[1].fails = <<EQuotaRetry, EAuth>>
  /\ obs[1].nsleeps = 1

\* ---- C26
\* every upstream call of _call_with_retry comes after a _rate_limit call of its own
\* attempt
EveryAttemptThrottled == \A t \in callers : pc[t] = "call" => obs[t].throttled

AllScoreTen ==
  LET secs == SectionsOf(full_content)
  IN /\ \A i \in 1..Len(secs) :
          /\ _calculate_relevance_score(secs[i], topic_keywords) = 5 * 10
          /\ OccurrenceScore(lower(secs[i]), topic_keywords, 1) = 0
     /\ Len(ScoredSections(secs, topic_keywords)) = Len(secs)

\* C27: the keyword list ends with the lowercased topic, whatever the topic; for the
\* empty topic it is the empty string alone, every section scores exactly 10 and no
\* section is left out as zero-score
C27_TopicKeyword ==
  xpc = "done" =>
    /\ Len(topic_keywords) >= 1
    /\ topic_keywords[Len(topic_keywords)] = lower(topic)
    /\ topic = <<>> => topic_keywords = << <<>> >> /\ AllScoreTen

\* the empty topic on a document of three sections, one of which holds no keyword of
\* any other topic
C27_Witness ==
  /\ xpc = "done"
  /\ topic = <<>>
  /\ topic_keywords = << <<>> >>
  /\ Len(SectionsOf(full_content)) = 3
  /\ AllScoreTen
  /\ full_content = BlockLong \o BlockOther \o BlockCaps

\* ---- C28
\* an error text with a rate or quota indicator and a timeout indicator
BothIndicators(e) == IsRateLimited(e) /\ IsTimeout(e)

\* C28: an error that carries both kinds of indicator is handled as rate-limited:
\* retried after the rate-limit delay, and on the last attempt raised to the caller,
\* with no None returned
C28_RateLimitFirst ==
  \A t \in callers :
    /\ (pc[t] = "backoff" /\ BothIndicators(err[t]))
         => wake[t] - obs[t].failAt >= RateLimitDelay(err[t])
    /\ (Returned(t) /\ Len(obs[t].fails) = max_retries + 1 /\ BothIndicators(Last(obs[t].fails)))
         => raised[t] = Last(obs[t].fails) /\ ret[t] = NoValue

\* two timeouts, then an error with both indicators on the last attempt, raised
C28_Witness ==
  \E t \in callers :
    /\ Returned(t)
    /\ obs[t].fails = <<ETimedOut, ETimedOut, EBoth>>
    /\ raised[t] = EBoth
    /\ ret[t] = NoValue

\* ---- C29
\* the failures of the invoke are not all of one class
Mixed(fails) ==
  \E i, j \in 1..Len(fails) : RateClass(fails[i]) /\ TimeoutClass(fails[j])

\* C29: when all max_retries + 1 attempts fail with rate-limit and timeout errors of
\* both classes, the class of the last failure alone decides: None is returned after a
\* timeout, the error is raised after a rate-limit error
C29_LastFailureDecides ==
  \A t \in callers :
    (Returned(t) /\ Len(obs[t].fails) = max_retries + 1 /\ Mixed(obs[t].fails))
      => LET last == Last(obs[t].fails)
         IN /\ TimeoutClass(last) => ret[t] = NoneValue /\ raised[t] = NoError
            /\ RateClass(last) => raised[t] = last /\ ret[t] = NoValue

\* two rate-limit errors and then a timeout: None is returned
C29_Witness ==
  \E t \in callers :
    /\ Returned(t)
    /\ obs[t].fails = <<E429, EQuotaRetry, ETimedOut>>
    /\ ret[t] = NoneValue
    /\ raised[t] = NoError

\* ---- C30
\* text is a prefix of the well-formed array of the records recs
PrefixOfArray(text, recs) ==
  /\ Len(text) <= Len(ArrayOf(recs))
  /\ text = SubSeq(ArrayOf(recs), 1, Len(text))

\* C30: from a prefix of a well-formed array of records that has no closing bracket,
\* recover() returns the first k records of the array, for some k >= 0, each as the
\* array has it
C30_SalvageInventsNothing ==
  (rpc = "done" /\ NoClosingBracket(raw) /\ (raw = <<>> \/ raw[1] = "[")) =>
    \A recs \in AllRecordLists :
      PrefixOfArray(raw, recs)
        => /\ chunks.kind = "return"
           /\ \E k \in 0..Len(recs) : chunks.value = ValuesOf(First(recs, k))

\* a record, a separator and a fragment that is cut inside a title after a record
\* terminator: the salvage returns the one record
C30_Witness ==
  /\ rpc = "done"
  /\ raw = OpenArray(<< <<"1", <<"A">>>> >>) \o <<",">>
             \o SubSeq(Record("3", <<"}", ",">>), 1, Len(Record("3", <<"}", ",">>)) - 3)
  /\ chunks.value = ValuesOf(<< <<"1", <<"A">>>> >>)
  /\ chunks.tried = <<"salvage">>

====
